---- MODULE Spec2Model ----
(***************************************************************************)
(* The V2 per-chunk codec stages of zarr (src/zarr/codecs/_v2.py):         *)
(* V2Filters (array -> array filter chain) and V2Compressor (array ->      *)
(* bytes), run as coroutines that offload every numcodecs call to a        *)
(* worker thread with to_thread.                                           *)
(*                                                                         *)
(* Arrays are modelled by their dtype, shape and the bytes of their        *)
(* elements in logical (row-major index) order, little-endian.  Shapes     *)
(* have one or two dimensions.  The numcodecs codecs are external; three   *)
(* test doubles stand for them: an element-wise "add1" filter, a           *)
(* dtype-changing "narrow" filter (uint16 <-> uint8, like AsType) and a    *)
(* length-framing "hdr" compressor.  The id "bad" is in no registry.       *)
(***************************************************************************)
EXTENDS Integers, Sequences, FiniteSets, TLC

\* ---------------------------------------------------------------- bounds
MaxFilters == 2
MaxLen == 3
MaxStored == 4
NumProcs == 2

Procs == 1..NumProcs

\* ---------------------------------------------------------------- values
None == [kind |-> "none"]
NoVal == [kind |-> "unset"]
Arr(d, sh, data) == [kind |-> "array", dtype |-> d, shape |-> sh, data |-> data]
Bytes(data) == [kind |-> "bytes", data |-> data]
Err(name, at) == [kind |-> "error", name |-> name, at |-> at]
IsErr(v) == v.kind = "error"
IsArr(v) == v.kind = "array"

ItemSize(d) == IF d = "uint16" THEN 2 ELSE 1

RECURSIVE Prod(_)
Prod(sh) == IF sh = <<>> THEN 1 ELSE Head(sh) * Prod(Tail(sh))

Reverse(s) == [k \in 1..Len(s) |-> s[Len(s) + 1 - k]]

NBytes(a) == Len(a.data)

\* The 0-based row-major index of the element that column-major traversal of
\* `sh` visits at (1-based) position j.
FSource(sh, j) ==
  IF Len(sh) < 2 THEN j - 1
  ELSE ((j - 1) % sh[1]) * sh[2] + ((j - 1) \div sh[1])

\* The 0-based column-major position of the element at (1-based) row-major
\* index k of `sh`.
FTarget(sh, k) ==
  IF Len(sh) < 2 THEN k - 1
  ELSE ((k - 1) % sh[2]) * sh[1] + ((k - 1) \div sh[2])

\* Byte b of a sequence of s-byte elements whose element at position
\* ((b - 1) \div s) + 1 is the element of `data` with 0-based index src.
ByteOf(data, s, src, b) == data[src * s + ((b - 1) % s) + 1]

\* The elements of `a` in the traversal order `order`, as bytes.
Linear(a, order) ==
  IF order = "C" THEN a.data
  ELSE LET s == ItemSize(a.dtype)
       IN [b \in 1..(Prod(a.shape) * s) |->
             ByteOf(a.data, s, FSource(a.shape, ((b - 1) \div s) + 1), b)]

\* ndarray.ravel(order=...): a one-dimensional array of the elements in the
\* given traversal order.
\* (Faulty variant: flattens row-major whatever the order.)
RavelRowMajorOnly(a, order) == Arr(a.dtype, <<Prod(a.shape)>>, a.data)
Ravel(a, order) == Arr(a.dtype, <<Prod(a.shape)>>, Linear(a, order))

\* ndarray.reshape(shape, order=...): elements are read and placed in the
\* given traversal order; the element count must not change.
Reshape(a, sh, order) ==
  IF Prod(a.shape) # Prod(sh) THEN Err("ValueError", "reshape")
  ELSE IF order = "C" THEN Arr(a.dtype, sh, Linear(a, order))
  ELSE LET s == ItemSize(a.dtype)
           flat == Linear(a, order)
       IN Arr(a.dtype, sh,
              [b \in 1..(Prod(sh) * s) |->
                 ByteOf(flat, s, FTarget(sh, ((b - 1) \div s) + 1), b)])

\* ndarray.view(dtype): the same bytes under another dtype; the last axis is
\* rescaled and must hold a whole number of the new elements.
ViewShape(a, d) ==
  LET n == Len(a.shape)
  IN [a.shape EXCEPT ![n] = (a.shape[n] * ItemSize(a.dtype)) \div ItemSize(d)]
\* (Faulty variant: converts element by element, like astype.)
ViewConvert(a, d) ==
  LET so == ItemSize(a.dtype)
      sn == ItemSize(d)
      cnt == Len(a.data) \div so
  IN Arr(d, a.shape,
         [b \in 1..(cnt * sn) |->
            IF (b - 1) % sn < so THEN a.data[((b - 1) \div sn) * so + ((b - 1) % sn) + 1]
            ELSE 0])
View(a, d) ==
  IF ItemSize(d) = ItemSize(a.dtype) THEN Arr(d, a.shape, a.data)
  ELSE IF a.shape = <<>> \/ (a.shape[Len(a.shape)] * ItemSize(a.dtype)) % ItemSize(d) # 0
       THEN Err("ValueError", "view")
  ELSE Arr(d, ViewShape(a, d), a.data)

\* numcodecs.compat.ensure_ndarray on a byte buffer, ensure_bytes on an array.
EnsureNdarray(v) == IF IsArr(v) THEN v ELSE Arr("uint8", <<Len(v.data)>>, v.data)
EnsureBytes(v) == Bytes(v.data)

\* ------------------------------------------------------ codec test doubles
\* numcodecs.get_codec: the registry knows these ids; any other id raises.
Registry == {"add1", "narrow", "hdr"}
Resolvable(cfg) == cfg \in Registry

\* Little-endian value of the element of s bytes starting after offset base.
ElemVal(data, base, s) ==
  IF s = 1 THEN data[base + 1] ELSE data[base + 1] + 256 * data[base + 2]

\* Every element plus delta, wrapping in the width of the array's dtype.
AddElems(a, delta) ==
  LET s == ItemSize(a.dtype)
      m == IF s = 1 THEN 256 ELSE 65536
  IN [a EXCEPT !.data =
        [b \in 1..Len(a.data) |->
           LET base == ((b - 1) \div s) * s
               nv == (ElemVal(a.data, base, s) + delta + m) % m
           IN IF (b - 1) % s = 0 THEN nv % 256 ELSE nv \div 256]]

\* "narrow": encode reads its input as uint16 and stores each element as
\* uint8; decode reads its input as uint8 and widens each element to uint16.
NarrowEncode(a) ==
  LET v == View(a, "uint16")
  IN IF IsErr(v) THEN Err("ValueError", "transform")
     ELSE Arr("uint8", v.shape, [e \in 1..(Len(v.data) \div 2) |-> v.data[2 * e - 1]])
NarrowDecode(a) ==
  LET v == View(a, "uint8")
  IN Arr("uint16", v.shape,
         [b \in 1..(2 * Len(v.data)) |-> IF b % 2 = 1 THEN v.data[(b + 1) \div 2] ELSE 0])

\* "hdr": encode frames the bytes of its input with a leading length byte;
\* decode checks the frame and returns the payload, or raises.
HdrEncode(a) == Bytes(<<Len(a.data) % 256>> \o a.data)
HdrDecode(b) ==
  IF Len(b.data) >= 1 /\ b.data[1] = Len(b.data) - 1
  THEN Arr("uint8", <<Len(b.data) - 1>>, Tail(b.data))
  ELSE Err("RuntimeError", "transform")

\* codec.encode(arg) / codec.decode(arg) of the codec resolved from cfg.
Apply(cfg, dir, arg) ==
  CASE cfg = "add1" /\ dir = "encode" -> AddElems(arg, 1)
    [] cfg = "add1" /\ dir = "decode" -> AddElems(arg, -1)
    [] cfg = "narrow" /\ dir = "encode" -> NarrowEncode(arg)
    [] cfg = "narrow" /\ dir = "decode" -> NarrowDecode(arg)
    [] cfg = "hdr" /\ dir = "encode" -> HdrEncode(arg)
    [] cfg = "hdr" /\ dir = "decode" -> HdrDecode(arg)

\* ------------------------------------------------------------------ state
VARIABLES
  compressor,  \* V2Compressor.compressor: a codec id, or NoCompressor
  filters,     \* V2Filters.filters: a sequence of codec ids
  tasks,       \* per chunk pipeline: the coroutine's frame and its call records
  work,        \* per chunk pipeline: the argument / local chunk_numpy_array
  inflight,    \* the to_thread calls handed to the worker pool and not yet awaited back
  mode,        \* "single": one pipeline, all inputs; "conc": NumProcs pipelines
  constructed  \* the configuration the two codec instances were constructed with

vars == <<compressor, filters, tasks, work, inflight, mode, constructed>>

NoCompressor == "None"
FilterIds == {"add1", "narrow", "bad"}
CompressorIds == {NoCompressor, "hdr", "bad"}

RECURSIVE SeqsUpTo(_, _)
SeqsUpTo(S, n) ==
  IF n = 0 THEN {<<>>}
  ELSE LET shorter == SeqsUpTo(S, n - 1)
       IN shorter \cup {Append(q, x) : q \in {r \in shorter : Len(r) = n - 1}, x \in S}

FilterLists == SeqsUpTo(FilterIds, MaxFilters)

Shapes ==
  {<<n>> : n \in 1..MaxLen}
    \cup {sh \in {<<r, c>> : r \in 2..MaxLen, c \in 2..MaxLen} : sh[1] * sh[2] <= 2 * MaxLen}
DTypes == {"uint8", "uint16"}
Orders == {"C", "F"}
Specs == {[shape |-> sh, dtype |-> d, order |-> o] : sh \in Shapes, d \in DTypes, o \in Orders}

\* The chunk of a spec: element k (row-major, from 1) holds the value k.
Chunk(spec) ==
  LET s == ItemSize(spec.dtype)
  IN Arr(spec.dtype, spec.shape,
         [b \in 1..(Prod(spec.shape) * s) |-> IF (b - 1) % s = 0 THEN ((b - 1) \div s) + 1 ELSE 0])

\* Stored chunk bytes offered to decode: payloads 1..n, bare or framed by "hdr".
Payload(n) == [k \in 1..n |-> k]
StoredInputs ==
  {None} \cup {Bytes(Payload(n)) : n \in 0..MaxStored}
         \cup {Bytes(<<n>> \o Payload(n)) : n \in 0..MaxStored}

\* Arguments offered to V2Filters.decode_single called on its own: the
\* sentinel, or an array of the spec's dtype as the compressor stage hands on.
FilterStageArgs(sp) ==
  {None} \cup {Arr(sp.dtype, <<n>>, Payload(n * ItemSize(sp.dtype))) : n \in 1..2}

Call(op, spec, arg) == [op |-> op, spec |-> spec, arg |-> arg]

SingleInputs ==
  {Call("roundtrip", sp, Chunk(sp)) : sp \in Specs}
    \cup {Call("decode", sp, b) : sp \in Specs, b \in StoredInputs}
    \cup UNION {{Call("fdec", sp, a) : a \in FilterStageArgs(sp)} : sp \in Specs}
    \cup {Call(op, sp, Bytes(Payload(1))) : op \in {"size_c", "size_f"}, sp \in Specs}

ConcSpecs ==
  {[shape |-> <<2, 2>>, dtype |-> "uint16", order |-> "F"],
   [shape |-> <<2>>, dtype |-> "uint16", order |-> "C"]}
ConcInputs ==
  {Call("roundtrip", sp, Chunk(sp)) : sp \in ConcSpecs}
    \cup {Call("decode", [shape |-> <<2>>, dtype |-> "uint8", order |-> "C"], b) :
            b \in {None, Bytes(<<2, 1, 2>>)}}
    \cup {Call("size_c", [shape |-> <<2>>, dtype |-> "uint8", order |-> "C"], Bytes(<<1>>))}
ConcConfigs ==
  {[c |-> NoCompressor, f |-> <<>>],
   [c |-> "hdr", f |-> <<>>],
   [c |-> "hdr", f |-> <<"add1", "narrow">>],
   [c |-> "hdr", f |-> <<"narrow", "add1">>],
   [c |-> NoCompressor, f |-> <<"add1", "bad">>]}

Inputs == IF mode = "single" THEN SingleInputs ELSE ConcInputs
Active == IF mode = "single" THEN {1} ELSE Procs

Stages == {"FE", "CE", "CD", "FD"}

IdleTask ==
  [op |-> "none", spec |-> NoVal, input |-> NoVal, stage |-> "idle", i |-> 0,
   waiting |-> FALSE, calls |-> <<>>, resolved |-> <<>>, offloads |-> 0,
   outs |-> [st \in Stages |-> NoVal], craw |-> NoVal, pre |-> NoVal,
   result |-> NoVal, error |-> NoVal, failedIn |-> "none"]

Init ==
  /\ mode = "single"
  /\ compressor \in CompressorIds
  /\ filters \in FilterLists
  /\ tasks = [p \in Procs |-> IdleTask]
  /\ work = [p \in Procs |-> NoVal]
  /\ inflight = {}
  /\ constructed = [c |-> compressor, f |-> filters]

InitConc ==
  /\ mode = "conc"
  /\ \E cfg \in ConcConfigs : compressor = cfg.c /\ filters = cfg.f
  /\ tasks = [p \in Procs |-> IdleTask]
  /\ work = [p \in Procs |-> NoVal]
  /\ inflight = {}
  /\ constructed = [c |-> compressor, f |-> filters]

\* ------------------------------------------------------- coroutine helpers
\* chunk_numpy_array is a local of the coroutine: one slot per pipeline.
\* (Faulty variant: the working array kept on the shared codec instance.)
SharedSlot(p) == 1
Slot(p) == p

\* `await to_thread(...)`: the coroutine is suspended until the call is done.
\* (Faulty variant: the call is started and not awaited.)
NoAwait(t) == t
Await(t) == [t EXCEPT !.waiting = TRUE]

\* The order in which each direction walks self.filters.
EncodeOrder(fs) == fs
\* (Faulty variant: decode walks the list forwards.)
DecodeOrderForward(fs) == fs
DecodeOrder(fs) == Reverse(fs)

\* to_thread(codec.encode / codec.decode, arg) of the codec just resolved.
Offloaded(t, cfg, dir) ==
  Await([t EXCEPT !.offloads = @ + 1,
                  !.calls = Append(@, [cfg |-> cfg, dir |-> dir, st |-> t.stage]),
                  !.resolved = Append(@, cfg)])
Job(p, t, cfg, dir, arg) ==
  [owner |-> p, seq |-> t.offloads + 1, cfg |-> cfg, dir |-> dir, arg |-> arg]

\* An exception leaves the coroutine; nothing is returned.
Raise(t, e) ==
  [t EXCEPT !.stage = "raised", !.error = e, !.waiting = FALSE, !.failedIn = t.stage]

\* numcodecs.get_codec raises for a config it cannot resolve.
\* (Faulty variant: the failed lookup is swallowed and the loop goes on.)
SkipUnresolved(t, cfg) == [t EXCEPT !.resolved = Append(@, cfg), !.i = @ + 1]
RaiseUnresolved(t, cfg) ==
  Raise([t EXCEPT !.resolved = Append(@, cfg)], Err("ValueError", "get_codec"))

\* The per-chunk pipeline around the stages: encode is filters then
\* compressor, decode is compressor then filters; the "no data" sentinel
\* ends the pipeline at once.
NextStage(op, st) ==
  CASE op = "roundtrip" /\ st = "FE" -> "CE_call"
    [] op = "roundtrip" /\ st = "CE" -> "CD_call"
    [] op \in {"roundtrip", "decode"} /\ st = "CD" -> "FD_call"
    [] OTHER -> "end"
FirstStage(op) ==
  CASE op = "roundtrip" -> "FE_call"
    [] op = "decode" -> "CD_call"
    [] op = "fdec" -> "FD_call"
    [] OTHER -> "SZ_call"
Return(t, st, out) ==
  LET t2 == [t EXCEPT !.outs[st] = out, !.waiting = FALSE, !.i = 0]
  IN IF NextStage(t.op, st) = "end" \/ out = None
     THEN [t2 EXCEPT !.stage = "returned", !.result = out]
     ELSE [t2 EXCEPT !.stage = NextStage(t.op, st)]

Step(p, t2, w2, jobs2) ==
  /\ tasks' = [tasks EXCEPT ![p] = t2]
  /\ work' = [work EXCEPT ![Slot(p)] = w2]
  /\ inflight' = jobs2
  /\ UNCHANGED <<compressor, filters, mode, constructed>>

MyJobs(p) == {j \in inflight : j.owner = p}

\* ---------------------------------------------------------------- actions
\* The caller starts one chunk operation with its chunk spec and argument.
Begin(p) ==
  /\ p \in Active
  /\ tasks[p].stage = "idle"
  /\ \E in \in Inputs :
       Step(p, [IdleTask EXCEPT !.op = in.op, !.spec = in.spec, !.input = in.arg,
                                !.stage = FirstStage(in.op)],
            in.arg, inflight)

\* V2Filters.encode_single, entry: flatten in spec.order.
FiltersEncodeCall(p) ==
  LET t == tasks[p]
  IN /\ t.stage = "FE_call"
     /\ Step(p, [t EXCEPT !.stage = "FE", !.i = 0],
             Ravel(work[Slot(p)], t.spec.order), inflight)

\* V2Filters.encode_single, loop head: resolve the next filter and offload its
\* encode, or return the working array when the list is exhausted.
FiltersEncodeNext(p) ==
  LET t == tasks[p]
      w == work[Slot(p)]
  IN /\ t.stage = "FE"
     /\ ~t.waiting
     /\ IF t.i >= Len(filters) THEN Step(p, Return(t, "FE", w), w, inflight)
        ELSE LET cfg == EncodeOrder(filters)[t.i + 1]
             IN IF ~Resolvable(cfg) THEN Step(p, RaiseUnresolved(t, cfg), w, inflight)
                ELSE Step(p, Offloaded(t, cfg, "encode"), w,
                          inflight \cup {Job(p, t, cfg, "encode", w)})

\* A filter call comes back: its result becomes the working array.
FilterResumed(p, st) ==
  LET t == tasks[p]
  IN /\ t.stage = st
     /\ t.waiting
     /\ \E j \in MyJobs(p) :
          LET r == Apply(j.cfg, j.dir, j.arg)
          IN IF IsErr(r) THEN Step(p, Raise(t, r), work[Slot(p)], inflight \ {j})
             ELSE Step(p, [t EXCEPT !.waiting = FALSE, !.i = @ + 1], r, inflight \ {j})

FiltersEncodeResume(p) == FilterResumed(p, "FE")

\* V2Compressor.encode_single up to its await, or to its return when no
\* compressor is configured.  (The contiguous copy changes memory layout
\* only; the stage is handed a flat array by the filter stage.)
CompressorEncodeCall(p) ==
  LET t == tasks[p]
      w == work[Slot(p)]
      t1 == [t EXCEPT !.stage = "CE"]
  IN /\ t.stage = "CE_call"
     /\ IF compressor # NoCompressor
        THEN IF ~Resolvable(compressor) THEN Step(p, RaiseUnresolved(t1, compressor), w, inflight)
             ELSE Step(p, Offloaded(t1, compressor, "encode"), w,
                       inflight \cup {Job(p, t, compressor, "encode", w)})
        ELSE Step(p, Return(t1, "CE", EnsureBytes(w)), EnsureBytes(w), inflight)

\* V2Compressor.encode_single after its await: wrap the bytes and return.
CompressorEncodeResume(p) ==
  LET t == tasks[p]
  IN /\ t.stage = "CE"
     /\ t.waiting
     /\ \E j \in MyJobs(p) :
          LET r == Apply(j.cfg, j.dir, j.arg)
          IN IF IsErr(r) THEN Step(p, Raise(t, r), work[Slot(p)], inflight \ {j})
             ELSE Step(p, Return(t, "CE", EnsureBytes(r)), EnsureBytes(r), inflight \ {j})

\* "ensure correct dtype": reinterpret when the reported dtype differs.
DtypeRepair(a, spec) == IF a.dtype # spec.dtype THEN View(a, spec.dtype) ELSE a

\* The tail of V2Compressor.decode_single from the array it obtained.
CompressorDecodeFinish(t, a) ==
  LET out == DtypeRepair(a, t.spec)
      t1 == [t EXCEPT !.craw = a]
  IN IF IsErr(out) THEN Raise(t1, out) ELSE Return(t1, "CD", out)

\* if chunk_bytes is None: return None
IsSentinel(v) == v = None

\* V2Compressor.decode_single up to its await, or to its return.
CompressorDecodeCall(p) ==
  LET t == tasks[p]
      w == work[Slot(p)]
      t1 == [t EXCEPT !.stage = "CD"]
  IN /\ t.stage = "CD_call"
     /\ IF IsSentinel(w) THEN Step(p, Return(t1, "CD", None), None, inflight)
        ELSE IF compressor # NoCompressor
        THEN IF ~Resolvable(compressor) THEN Step(p, RaiseUnresolved(t1, compressor), w, inflight)
             ELSE Step(p, Offloaded(t1, compressor, "decode"), w,
                       inflight \cup {Job(p, t, compressor, "decode", w)})
        ELSE LET t2 == CompressorDecodeFinish(t1, EnsureNdarray(w))
             IN Step(p, t2, IF t2.stage = "raised" THEN w ELSE t2.outs["CD"], inflight)

\* V2Compressor.decode_single after its await: dtype repair and return.
CompressorDecodeResume(p) ==
  LET t == tasks[p]
  IN /\ t.stage = "CD"
     /\ t.waiting
     /\ \E j \in MyJobs(p) :
          LET r == Apply(j.cfg, j.dir, j.arg)
          IN IF IsErr(r) THEN Step(p, Raise(t, r), work[Slot(p)], inflight \ {j})
             ELSE LET t2 == CompressorDecodeFinish(t, EnsureNdarray(r))
                  IN Step(p, t2, IF t2.stage = "raised" THEN r ELSE t2.outs["CD"],
                          inflight \ {j})

\* V2Filters.decode_single, entry: chunk_array.as_numpy_array().
FiltersDecodeCall(p) ==
  LET t == tasks[p]
      w == work[Slot(p)]
  IN /\ t.stage = "FD_call"
     /\ IF ~IsArr(w)
        THEN Step(p, Raise([t EXCEPT !.stage = "FD"], Err("AttributeError", "as_numpy_array")),
                  w, inflight)
        ELSE Step(p, [t EXCEPT !.stage = "FD", !.i = 0], w, inflight)

\* "ensure correct chunk shape": reshape in spec.order when the shape differs.
Reconcile(a, spec) ==
  IF a.shape # spec.shape THEN Reshape(a, spec.shape, spec.order) ELSE a

\* V2Filters.decode_single, loop head: resolve the next filter in reverse
\* order and offload its decode, or reconcile the shape and return.
FiltersDecodeNext(p) ==
  LET t == tasks[p]
      w == work[Slot(p)]
  IN /\ t.stage = "FD"
     /\ ~t.waiting
     /\ IF t.i >= Len(filters)
        THEN LET out == Reconcile(w, t.spec)
                 t1 == [t EXCEPT !.pre = w]
             IN IF IsErr(out) THEN Step(p, Raise(t1, out), w, inflight)
                ELSE Step(p, Return(t1, "FD", out), out, inflight)
        ELSE LET cfg == DecodeOrder(filters)[t.i + 1]
             IN IF ~Resolvable(cfg) THEN Step(p, RaiseUnresolved(t, cfg), w, inflight)
                ELSE Step(p, Offloaded(t, cfg, "decode"), w,
                          inflight \cup {Job(p, t, cfg, "decode", w)})

FiltersDecodeResume(p) == FilterResumed(p, "FD")

\* compute_encoded_size of either stage: raise NotImplementedError.
\* (Faulty variant: answers with the input length.)
SizeReturnsLength(t) ==
  [t EXCEPT !.stage = "returned", !.result = [kind |-> "int", n |-> Len(t.input.data)]]
SizeOutcome(t) == Raise(t, Err("NotImplementedError", "compute_encoded_size"))

ComputeEncodedSize(p) ==
  LET t == tasks[p]
  IN /\ t.stage = "SZ_call"
     /\ Step(p, SizeOutcome(t), work[Slot(p)], inflight)

Next ==
  \E p \in Procs :
    \/ Begin(p)
    \/ FiltersEncodeCall(p)
    \/ FiltersEncodeNext(p)
    \/ FiltersEncodeResume(p)
    \/ CompressorEncodeCall(p)
    \/ CompressorEncodeResume(p)
    \/ CompressorDecodeCall(p)
    \/ CompressorDecodeResume(p)
    \/ FiltersDecodeCall(p)
    \/ FiltersDecodeNext(p)
    \/ FiltersDecodeResume(p)
    \/ ComputeEncodedSize(p)

Spec == Init /\ [][Next]_vars
SpecConc == InitConc /\ [][Next]_vars

\* ------------------------------------------------ one call, run on its own
\* The stages as straight-line functions of their argument: what a call
\* yields when nothing else runs between its steps.
RECURSIVE ChainRun(_, _, _)
ChainRun(cfgs, dir, a) ==
  IF cfgs = <<>> THEN a
  ELSE IF ~Resolvable(Head(cfgs)) THEN Err("ValueError", "get_codec")
  ELSE LET r == Apply(Head(cfgs), dir, a)
       IN IF IsErr(r) THEN r ELSE ChainRun(Tail(cfgs), dir, r)

AloneFiltersEncode(chunk, spec) ==
  ChainRun(EncodeOrder(filters), "encode", Ravel(chunk, spec.order))

AloneCompressorEncode(a) ==
  IF compressor = NoCompressor THEN EnsureBytes(a)
  ELSE LET r == ChainRun(<<compressor>>, "encode", a)
       IN IF IsErr(r) THEN r ELSE EnsureBytes(r)

AloneCompressorDecode(b, spec) ==
  IF IsSentinel(b) THEN None
  ELSE IF compressor = NoCompressor THEN DtypeRepair(EnsureNdarray(b), spec)
  ELSE LET r == ChainRun(<<compressor>>, "decode", b)
       IN IF IsErr(r) THEN r ELSE DtypeRepair(EnsureNdarray(r), spec)

AloneFiltersDecode(a, spec) ==
  IF ~IsArr(a) THEN Err("AttributeError", "as_numpy_array")
  ELSE LET r == ChainRun(DecodeOrder(filters), "decode", a)
       IN IF IsErr(r) THEN r ELSE Reconcile(r, spec)

AloneDecode(b, spec) ==
  LET a == AloneCompressorDecode(b, spec)
  IN IF IsErr(a) \/ a = None THEN a ELSE AloneFiltersDecode(a, spec)

AloneEncode(chunk, spec) ==
  LET a == AloneFiltersEncode(chunk, spec)
  IN IF IsErr(a) THEN a ELSE AloneCompressorEncode(a)

Alone(op, spec, arg) ==
  CASE op = "roundtrip" ->
         LET b == AloneEncode(arg, spec)
         IN IF IsErr(b) THEN b ELSE AloneDecode(b, spec)
    [] op = "decode" -> AloneDecode(arg, spec)
    [] op = "fdec" -> AloneFiltersDecode(arg, spec)
    [] OTHER -> Err("NotImplementedError", "compute_encoded_size")

Finished(t) == t.stage \in {"returned", "raised"}
Outcome(t) == IF t.stage = "raised" THEN t.error ELSE t.result

\* --------------------------------------------------------------- claims
IsPrefix(a, b) == Len(a) <= Len(b) /\ \A k \in 1..Len(a) : a[k] = b[k]
CfgNames(cs) == [k \in 1..Len(cs) |-> cs[k].cfg]
WithDir(cs, dir) == SelectSeq(cs, LAMBDA c : c.dir = dir)
InStage(cs, st) == SelectSeq(cs, LAMBDA c : c.st = st)

ForwardCalls == [k \in 1..Len(filters) |-> [cfg |-> filters[k], dir |-> "encode", st |-> "FE"]]
InverseCalls ==
  [k \in 1..Len(filters) |->
     [cfg |-> filters[Len(filters) + 1 - k], dir |-> "decode", st |-> "FD"]]
CompressorCall(dir, st) ==
  IF compressor = NoCompressor THEN <<>>
  ELSE <<[cfg |-> compressor, dir |-> dir, st |-> st]>>
ExpectedCalls(op) ==
  CASE op = "roundtrip" ->
         ForwardCalls \o CompressorCall("encode", "CE")
           \o CompressorCall("decode", "CD") \o InverseCalls
    [] op = "decode" -> CompressorCall("decode", "CD") \o InverseCalls
    [] op = "fdec" -> InverseCalls
    [] OTHER -> <<>>

\* C1: the recorded transform calls of a chunk operation are, at every
\* moment, a prefix of filters[0], ..., filters[n-1], compressor on encode
\* and of compressor, filters[n-1], ..., filters[0] on decode; an operation
\* that returned data made exactly these calls, each once, and the decode
\* sequence of a round trip is the reverse of its encode sequence.
C1_CallOrder ==
  \A p \in Procs :
    LET t == tasks[p]
    IN /\ IsPrefix(t.calls, ExpectedCalls(t.op))
       /\ (t.stage = "returned" /\ t.result # None) =>
            /\ t.calls = ExpectedCalls(t.op)
            /\ t.op = "roundtrip" =>
                 CfgNames(WithDir(t.calls, "decode"))
                   = Reverse(CfgNames(WithDir(t.calls, "encode")))

C1_Witness ==
  \E p \in Procs :
    /\ tasks[p].op = "roundtrip"
    /\ tasks[p].stage = "returned"
    /\ compressor = "hdr"
    /\ filters = <<"add1", "narrow">>
    /\ Len(tasks[p].calls) = 6

\* The dtype a filter chain hands on, or "ill" when a filter is given a dtype
\* it is not configured for or cannot be resolved.
RECURSIVE TypeAfter(_, _)
TypeAfter(fs, d) ==
  IF fs = <<>> THEN d
  ELSE IF Head(fs) = "add1" THEN TypeAfter(Tail(fs), d)
  ELSE IF Head(fs) = "narrow" /\ d = "uint16" THEN TypeAfter(Tail(fs), "uint8")
  ELSE "ill"
Invertible(spec) == compressor # "bad" /\ TypeAfter(filters, spec.dtype) # "ill"

\* C2: with resolvable, invertible filters fitted to the chunk's dtype and
\* an optional compressor, encode followed by decode under the same spec
\* returns the original chunk: same element values, shape and dtype.
C2_RoundTrip ==
  \A p \in Procs :
    LET t == tasks[p]
    IN (t.op = "roundtrip" /\ Invertible(t.spec)) =>
         /\ t.stage # "raised"
         /\ t.stage = "returned" => t.result = t.input

\* C3: decoding the "no data" sentinel returns the sentinel at each decode
\* stage, fails nowhere, and resolves and invokes no transform.
C3_Sentinel ==
  \A p \in Procs :
    LET t == tasks[p]
    IN (t.op \in {"decode", "fdec"} /\ t.input = None) =>
         /\ t.calls = <<>>
         /\ t.resolved = <<>>
         /\ t.stage # "raised"
         /\ t.stage = "returned" => t.result = None

ExpectedBytes(spec) == Prod(spec.shape) * ItemSize(spec.dtype)
DecodeOps == {"roundtrip", "decode", "fdec"}

\* C4: when the array that reaches shape reconciliation (the compressor
\* stage's array, or the filter chain's) has a byte count other than
\* product(spec.shape) * itemsize(spec.dtype), decode fails; what decode
\* returns has shape spec.shape and holds exactly the bytes that reached
\* reconciliation, none cut off and none added.
C4_ByteCount ==
  \A p \in Procs :
    LET t == tasks[p]
    IN (t.op \in DecodeOps /\ t.pre # NoVal) =>
         /\ NBytes(t.pre) # ExpectedBytes(t.spec) => t.stage = "raised"
         /\ t.stage = "returned" =>
              /\ t.result.shape = t.spec.shape
              /\ NBytes(t.result) = NBytes(t.pre)

\* C5: with no filter and no compressor nothing is resolved or invoked; the
\* encoded bytes are the chunk's elements in spec.order, byte for byte, and
\* decoding them gives back the chunk with spec.shape and spec.dtype.
InOrderBytes(enc, chunk, spec) ==
  LET s == ItemSize(spec.dtype)
      sh == spec.shape
  IN /\ enc.kind = "bytes"
     /\ Len(enc.data) = Len(chunk.data)
     /\ IF spec.order = "C" \/ Len(sh) = 1 THEN enc.data = chunk.data
        ELSE \A r \in 0..(sh[1] - 1), c \in 0..(sh[2] - 1), b \in 1..s :
               enc.data[(c * sh[1] + r) * s + b] = chunk.data[(r * sh[2] + c) * s + b]

C5_PassThrough ==
  (filters = <<>> /\ compressor = NoCompressor) =>
    \A p \in Procs :
      LET t == tasks[p]
      IN /\ t.calls = <<>> /\ t.resolved = <<>> /\ t.offloads = 0
         /\ (t.op = "roundtrip" /\ t.outs["CE"] # NoVal) =>
              InOrderBytes(t.outs["CE"], t.input, t.spec)
         /\ t.op = "roundtrip" => t.stage # "raised"
         /\ (t.op = "roundtrip" /\ t.stage = "returned") => t.result = t.input
         /\ (t.op = "decode" /\ t.stage = "returned" /\ t.result # None) =>
              /\ t.result.shape = t.spec.shape
              /\ t.result.dtype = t.spec.dtype
              /\ InOrderBytes(t.input, t.result, t.spec)

C5_Witness ==
  /\ filters = <<>>
  /\ compressor = NoCompressor
  /\ \E p \in Procs :
       /\ tasks[p].op = "roundtrip"
       /\ tasks[p].stage = "returned"
       /\ tasks[p].spec.order = "F"
       /\ tasks[p].spec.shape = <<2, 3>>
       /\ tasks[p].spec.dtype = "uint16"

\* C6: the array V2Compressor.decode_single returns has dtype spec.dtype
\* and exactly the bytes of the array it obtained (from the compressor, or
\* from the raw buffer); it is that very array when the dtypes already
\* agree; reinterpretation is refused only when the byte length is no whole
\* number of spec.dtype elements; and the stage never reshapes: the result
\* keeps the number of dimensions it obtained, sized by the byte count alone.
C6_DtypeRepair ==
  \A p \in Procs :
    LET t == tasks[p]
        a == t.craw
        o == t.outs["CD"]
    IN a # NoVal =>
         /\ (o # NoVal) =>
              /\ o.dtype = t.spec.dtype
              /\ o.data = a.data
              /\ a.dtype = t.spec.dtype => o = a
              /\ Len(o.shape) = Len(a.shape)
              /\ Prod(o.shape) * ItemSize(t.spec.dtype) = Len(a.data)
              /\ Len(t.spec.shape) > 1 => o.shape # t.spec.shape
         /\ (o = NoVal) =>
              /\ t.stage = "raised" /\ t.failedIn = "CD"
              /\ t.error = Err("ValueError", "view")
              /\ Len(a.data) % ItemSize(t.spec.dtype) # 0

C6_Witness ==
  \E p \in Procs :
    /\ tasks[p].craw # NoVal
    /\ tasks[p].craw.dtype = "uint8"
    /\ tasks[p].spec.dtype = "uint16"
    /\ tasks[p].spec.shape = <<2, 2>>
    /\ tasks[p].outs["CD"] # NoVal
    /\ tasks[p].outs["CD"].data = <<1, 2, 3, 4>>

\* C7: a compute_encoded_size call on either stage ends by raising
\* NotImplementedError, yields no value, and leaves the compressor config
\* and the filter list as they were.
C7_SizeUnsupported ==
  [][\A p \in Procs :
       (tasks[p].op \in {"size_c", "size_f"} /\ tasks'[p] # tasks[p]) =>
         /\ tasks'[p].stage = "raised"
         /\ tasks'[p].error = Err("NotImplementedError", "compute_encoded_size")
         /\ tasks'[p].result = NoVal
         /\ compressor' = compressor
         /\ filters' = filters]_vars

C7_Witness ==
  \E p \in Procs :
    /\ tasks[p].op = "size_f"
    /\ tasks[p].stage = "raised"
    /\ filters # <<>>

\* C8: per chunk pipeline at most one offloaded call is in flight; the
\* coroutine is suspended exactly while its call is in flight; that call was
\* handed the current working array; every transform invocation is one
\* offload; and a stage with nothing configured offloads nothing.
C8_OneAtATime ==
  \A p \in Procs :
    LET t == tasks[p]
    IN /\ Cardinality(MyJobs(p)) <= 1
       /\ t.waiting <=> MyJobs(p) # {}
       /\ \A j \in MyJobs(p) : j.arg = work[p] /\ j.seq = t.offloads /\ j.seq = Len(t.calls)
       /\ t.offloads = Len(t.calls)
       /\ Len(InStage(t.calls, "FE")) <= Len(filters)
       /\ Len(InStage(t.calls, "FD")) <= Len(filters)
       /\ Len(InStage(t.calls, "CE")) <= Len(CompressorCall("encode", "CE"))
       /\ Len(InStage(t.calls, "CD")) <= Len(CompressorCall("decode", "CD"))

C8_Witness ==
  \E p \in Procs, q \in Procs :
    /\ p # q
    /\ MyJobs(p) # {} /\ MyJobs(q) # {}
    /\ tasks[p].offloads = 2
    /\ tasks[q].offloads = 3

\* The argument a call run on its own hands to the transform it offloads in
\* stage st after i filters of that stage.
StoredAlone(t) == IF t.op = "roundtrip" THEN AloneEncode(t.input, t.spec) ELSE t.input
ArgAlone(t, st) ==
  CASE st = "FE" ->
         ChainRun(SubSeq(filters, 1, t.i), "encode", Ravel(t.input, t.spec.order))
    [] st = "CE" -> AloneFiltersEncode(t.input, t.spec)
    [] st = "CD" -> StoredAlone(t)
    [] st = "FD" ->
         ChainRun(SubSeq(Reverse(filters), 1, t.i), "decode",
                  IF t.op = "fdec" THEN t.input
                  ELSE AloneCompressorDecode(StoredAlone(t), t.spec))

NoInterference ==
  /\ \A p \in Procs :
       LET t == tasks[p]
       IN /\ Finished(t) => Outcome(t) = Alone(t.op, t.spec, t.input)
          /\ IsPrefix(t.calls, ExpectedCalls(t.op))
  /\ \A j \in inflight : j.arg = ArgAlone(tasks[j.owner], tasks[j.owner].stage)

\* C9: however the steps of concurrent chunk operations interleave, each
\* operation ends as it would when run alone, each offloaded transform gets
\* the working array of its own chunk, calls keep their per-chunk order, and
\* the compressor config and the filter list stay as constructed.
C9_Independent ==
  /\ NoInterference
  /\ compressor = constructed.c
  /\ filters = constructed.f

C9_Witness ==
  \E p \in Procs, q \in Procs :
    /\ p # q
    /\ tasks[p].op = "roundtrip" /\ tasks[q].op = "roundtrip"
    /\ tasks[p].spec # tasks[q].spec
    /\ tasks[p].stage = "returned"
    /\ tasks[q].stage = "FD" /\ tasks[q].waiting
    /\ Len(filters) = 2

Unresolved(cs) == {k \in 1..Len(cs) : ~Resolvable(cs[k])}
Min(S) == CHOOSE x \in S : \A y \in S : x <= y
Max(S) == CHOOSE x \in S : \A y \in S : x >= y

\* C10: once a lookup fails the operation has raised that error and returned
\* nothing; the failed lookup is the last lookup made; no unresolvable
\* transform is invoked and no call is repeated; V2Filters.encode_single has
\* then invoked exactly filters[0..k-1], V2Filters.decode_single exactly
\* filters[n-1..k+1], and a stage whose compressor is unresolvable nothing.
C10_ConfigError ==
  \A p \in Procs :
    LET t == tasks[p]
        n == Len(filters)
    IN /\ \A k \in 1..Len(t.calls) : Resolvable(t.calls[k].cfg)
       /\ Unresolved(t.resolved) # {} =>
            /\ t.stage = "raised"
            /\ t.error = Err("ValueError", "get_codec")
            /\ t.result = NoVal
            /\ t.outs[t.failedIn] = NoVal
            /\ Unresolved(t.resolved) = {Len(t.resolved)}
            /\ IsPrefix(t.calls, ExpectedCalls(t.op))
            /\ t.failedIn = "FE" =>
                 LET k == Min(Unresolved(filters))
                 IN InStage(t.calls, "FE")
                      = [j \in 1..(k - 1) |-> [cfg |-> filters[j], dir |-> "encode", st |-> "FE"]]
            /\ t.failedIn = "FD" =>
                 LET k == Max(Unresolved(filters))
                 IN InStage(t.calls, "FD")
                      = [j \in 1..(n - k) |->
                           [cfg |-> filters[n + 1 - j], dir |-> "decode", st |-> "FD"]]
            /\ t.failedIn \in {"CE", "CD"} => InStage(t.calls, t.failedIn) = <<>>

C10_Witness ==
  \E p \in Procs :
    /\ tasks[p].stage = "raised"
    /\ tasks[p].failedIn = "FD"
    /\ tasks[p].error = Err("ValueError", "get_codec")
    /\ Len(InStage(tasks[p].calls, "FD")) = 1
    /\ Len(filters) = 2
====
